---- MODULE Spec2Model ----
(***************************************************************************)
(* MemMachineMCPClient (backend/app/services/memmachine_client.py): the    *)
(* session-negotiating client of the remote memory service.  One action    *)
(* per resumption of a coroutine: the code between two awaits is atomic in *)
(* asyncio, so an action runs from the arrival of one response to the      *)
(* sending of the next request (or to the end of the public call).         *)
(***************************************************************************)
EXTENDS Integers, Sequences, FiniteSets, TLC

\* ------------------------------------------------------------------------
\* Bounds of the model
\* ------------------------------------------------------------------------
MaxTokens == 2     \* distinct session tokens the server hands out
MaxCount  == 3     \* per-call request counters saturate here
MaxLines  == 2     \* data/event lines in one SSE response stream
MaxClients == 2    \* clients constructed in the life of one process

Callers    == {1, 2}
SeqCallers == {1}              \* the single sequential caller of Spec
Tokens     == 1 .. MaxTokens
None       == 0                \* Python None for the session token

Inc(n) == IF n < MaxCount THEN n + 1 ELSE n

\* ------------------------------------------------------------------------
\* JSON values, as Python sees them after json.loads
\* ------------------------------------------------------------------------
JNull       == [t |-> "null"]
JInt(n)     == [t |-> "int", n |-> n]
JStr(s)     == [t |-> "str", s |-> s]
JList(xs)   == [t |-> "list", items |-> xs]
JMap(m)     == [t |-> "map", m |-> m]

IsList(v) == v.t = "list"
IsDict(v) == v.t = "map"
IsStr(v)  == v.t = "str"

\* Python truthiness of a JSON value
Truthy(v) ==
    CASE v.t = "null" -> FALSE
      [] v.t = "int"  -> v.n # 0
      [] v.t = "str"  -> v.s # ""
      [] v.t = "list" -> Len(v.items) > 0
      [] v.t = "map"  -> DOMAIN v.m # {}

\* dict.get(key, default)
DictGet(d, k, default) == IF k \in DOMAIN d.m THEN d.m[k] ELSE default

\* The texts the server puts in `text` / `content` fields
TextObj   == "{\"status\":200}"
TextPlain == "stored"
TextList  == "[{\"text\":\"stored\"}]"
Texts     == {TextObj, TextPlain, TextList}

\* json.loads on a text: which texts decode, and to what
Decodable(s) == s \in {TextObj, TextList}
JsonLoads(s) ==
    CASE s = TextObj  -> JMap([status |-> JInt(200)])
      [] s = TextList -> JList(<<JMap([text |-> JStr(TextPlain)])>>)

\* What a piece of code does: return a value or raise an exception
\* (exc is the exception class, msg the message it is built with, detail
\* the message of the exception it wraps)
Return(v) ==
    [kind |-> "return", exc |-> "", msg |-> "", detail |-> "", value |-> v]
RaiseFrom(e, m, d) ==
    [kind |-> "raise", exc |-> e, msg |-> m, detail |-> d, value |-> JNull]
Raise(e, m) == RaiseFrom(e, m, "")
NoOutcome ==
    [kind |-> "none", exc |-> "", msg |-> "", detail |-> "", value |-> JNull]

\* {"status": 200, "message": <raw text>}
WrapText(s) == JMap([status |-> JInt(200), message |-> JStr(s)])

\* json.loads(x) guarded by `except json.JSONDecodeError` (lines 295-301,
\* 318-321, 325-328): a non-str argument is a TypeError, which the guard
\* does not catch.
LoadsOrWrap(x) ==
    IF ~IsStr(x) THEN Raise("TypeError", "json_loads_non_str")
    ELSE IF Decodable(x.s) THEN Return(JsonLoads(x.s))
    ELSE Return(WrapText(x.s))

\* Result-shape handling inside _call_tool, lines 290-333
NormalizeResult(result) ==
    IF IsList(result) /\ Len(result.items) > 0
    THEN LET first == result.items[1] IN
         IF ~IsDict(first) THEN Raise("AttributeError", "no_get")
         ELSE LET text_content == DictGet(first, "text", JStr("")) IN
              IF Truthy(text_content) THEN LoadsOrWrap(text_content)
              ELSE Return(result)
    ELSE IF IsDict(result)
    THEN IF "structuredContent" \in DOMAIN result.m
         THEN Return(result.m["structuredContent"])
         ELSE IF "content" \in DOMAIN result.m
         THEN LET content == result.m["content"] IN
              IF IsList(content) /\ Len(content.items) > 0
              THEN LET first == content.items[1] IN
                   IF ~IsDict(first) THEN Raise("AttributeError", "no_get")
                   ELSE LET text_content == DictGet(first, "text", JStr("")) IN
                        IF Truthy(text_content) THEN LoadsOrWrap(text_content)
                        ELSE Return(result)
              ELSE IF IsDict(content) THEN Return(content)
              ELSE IF IsStr(content) THEN LoadsOrWrap(content)
              ELSE Return(result)
         ELSE Return(result)
    ELSE Return(result)

\* The second pass add_memory / search_memory run on what _call_tool
\* returned, lines 417-424 and 476-483.  json.loads is unguarded here.
ParseResult(result) ==
    IF IsList(result) /\ Len(result.items) > 0
    THEN LET first == result.items[1] IN
         IF ~IsDict(first) THEN Raise("AttributeError", "no_get")
         ELSE LET text_content == DictGet(first, "text", JStr("")) IN
              IF Truthy(text_content)
              THEN IF ~IsStr(text_content)
                   THEN Raise("TypeError", "json_loads_non_str")
                   ELSE IF Decodable(text_content.s)
                   THEN Return(JsonLoads(text_content.s))
                   ELSE Raise("JSONDecodeError", "json_loads")
              ELSE Return(result)
    ELSE IF IsDict(result) /\ "content" \in DOMAIN result.m
    THEN Return(result.m["content"])
    ELSE Return(result)

\* Result payloads the server answers a tools/call with
TextItem(s)   == JMap([type |-> JStr("text"), text |-> JStr(s)])
ResTextObj    == JList(<<TextItem(TextObj)>>)
ResTextPlain  == JList(<<TextItem(TextPlain)>>)
ResTextList   == JList(<<TextItem(TextList)>>)
ResStructured == JMap([structuredContent |-> JMap([status |-> JInt(200)])])
ResScalarItem == JList(<<JInt(5)>>)
Results       == {ResTextObj, ResTextPlain, ResTextList, ResStructured,
                  ResScalarItem}

\* The shapes a result payload can take: sequences, mappings with
\* structuredContent, mappings with content, other mappings, scalars
ImageItem               == JMap([type |-> JStr("image")])
ResEmptyList            == JList(<<>>)
ResNoText               == JList(<<ImageItem>>)
ResStructuredSibling    ==
    JMap([structuredContent |-> JMap([memories |-> JList(<<JStr("a")>>)]),
          content |-> JList(<<TextItem(TextObj)>>)])
ResStructuredContentKey ==
    JMap([structuredContent |->
              JMap([content |-> JStr("inner"), status |-> JInt(200)])])
ResStructuredList       ==
    JMap([structuredContent |-> JList(<<TextItem(TextObj)>>)])
ResContentList          == JMap([content |-> JList(<<TextItem(TextObj)>>)])
ResContentListPlain     == JMap([content |-> JList(<<TextItem(TextPlain)>>)])
ResContentNoText        == JMap([content |-> JList(<<ImageItem>>)])
ResContentScalarItem    == JMap([content |-> JList(<<JInt(5)>>)])
ResContentEmpty         == JMap([content |-> JList(<<>>)])
ResContentMap           == JMap([content |-> JMap([status |-> JInt(200)])])
ResContentStr           == JMap([content |-> JStr(TextObj)])
ResContentStrPlain      == JMap([content |-> JStr(TextPlain)])
ResContentInt           == JMap([content |-> JInt(7)])
ResPlainMap             == JMap([status |-> JInt(200)])
ResultShapes ==
    Results
    \cup {ResEmptyList, ResNoText, ResStructuredSibling,
          ResStructuredContentKey, ResStructuredList, ResContentList,
          ResContentListPlain, ResContentNoText, ResContentScalarItem,
          ResContentEmpty, ResContentMap, ResContentStr, ResContentStrPlain,
          ResContentInt, ResPlainMap, JInt(7), JStr("ok"), JNull}

\* JSON-RPC error payloads
ErrInvalidParams == JMap([code |-> JInt(-32602), message |-> JStr("bad")])
ErrInternal      == JMap([code |-> JInt(-32603), message |-> JStr("bad")])
ErrOther         == JMap([code |-> JInt(-32000), message |-> JStr("bad")])
ErrorPayloads    == {ErrInvalidParams, ErrInternal, ErrOther, JNull}

\* Further values a data line can carry under "error": an object without a
\* code, the empty object, a bare string
ErrNoCode   == JMap([message |-> JStr("bad")])
ErrEmpty    == JMap([k \in {} |-> JNull])
ErrText     == JStr("boom")
ErrorShapes == ErrorPayloads \cup {ErrNoCode, ErrEmpty, ErrText}

\* ------------------------------------------------------------------------
\* SSE response streams
\* ------------------------------------------------------------------------
EventLine     == [k |-> "event",   v |-> JNull]   \* "event: message"
GarbageLine   == [k |-> "garbage", v |-> JNull]   \* "data:" + undecodable
OtherLine     == [k |-> "other",   v |-> JNull]   \* data object, no result/error
ErrorLine(e)  == [k |-> "error",   v |-> e]       \* data object with "error"
ResultLine(r) == [k |-> "result",  v |-> r]       \* data object with "result"

InitResult == JMap([protocolVersion |-> JStr("2024-11-05")])
InitLines  == {EventLine, GarbageLine, OtherLine, ErrorLine(ErrOther),
               ResultLine(InitResult)}

\* The payloads the server of the protocol model draws from
WireErrors  == {ErrInvalidParams}
WireResults == {ResTextObj, ResTextList, ResScalarItem}
ToolLines   == {EventLine, GarbageLine, OtherLine}
                 \cup {ErrorLine(e) : e \in WireErrors}
                 \cup {ResultLine(r) : r \in WireResults}

Streams(L) == UNION {[1 .. n -> L] : n \in 0 .. MaxLines}

\* _initialize_session, lines 137-157: scan until the first result line
RECURSIVE ScanInitializeFrom(_, _, _)
ScanInitializeFrom(lines, i, init_error) ==
    IF i > Len(lines)
    THEN [initialized |-> FALSE, init_error |-> init_error]
    ELSE IF lines[i].k = "result"
    THEN [initialized |-> TRUE, init_error |-> init_error]
    ELSE IF lines[i].k = "error"
    THEN ScanInitializeFrom(lines, i + 1, lines[i].v)
    ELSE ScanInitializeFrom(lines, i + 1, init_error)

ScanInitialize(lines) == ScanInitializeFrom(lines, 1, JNull)

\* _initialize_session, lines 159-168: the verdict on the scanned stream
InitializeVerdict(status, scan) ==
    IF Truthy(scan.init_error) THEN Raise("ValueError", "init_error")
    ELSE IF ~scan.initialized
    THEN IF status \notin {200, 400}
         THEN Raise("ValueError", "init_http_status")
         ELSE Raise("ValueError", "init_no_result")
    ELSE Return(JNull)

\* _call_tool, lines 339-369: the stream ended without a result line
ToolStreamEnd(error_found) ==
    IF Truthy(error_found)
    THEN IF ~IsDict(error_found)
         THEN Raise("AttributeError", "no_get")      \* line 341: .get
         ELSE
         LET error_code == DictGet(error_found, "code", JInt(-1)) IN
         IF error_code = JInt(-32602)
         THEN Raise("ValueError", "mcp_invalid_params")
         ELSE IF error_code = JInt(-32603)
         THEN Raise("ValueError", "mcp_internal_error")
         ELSE Raise("ValueError", "mcp_error")
    ELSE Raise("ValueError", "no_result")

\* _call_tool, lines 264-337: scan the stream of a 200 response
RECURSIVE ScanToolFrom(_, _, _)
ScanToolFrom(lines, i, error_found) ==
    IF i > Len(lines) THEN ToolStreamEnd(error_found)
    ELSE IF lines[i].k = "error"
    THEN ScanToolFrom(lines, i + 1, lines[i].v)
    ELSE IF lines[i].k = "result" THEN NormalizeResult(lines[i].v)
    ELSE ScanToolFrom(lines, i + 1, error_found)

ScanTool(lines) == ScanToolFrom(lines, 1, JNull)

\* What a stream contains, independently of how the client scans it
HasResultLine(lines) == \E i \in 1 .. Len(lines) : lines[i].k = "result"
HasErrorLine(lines)  == \E i \in 1 .. Len(lines) : lines[i].k = "error"
IsErrorLine(line)    == line.k = "error"
ErrorLines(lines)    == SelectSeq(lines, IsErrorLine)
ErrorThenResult(lines) ==
    \E i, j \in 1 .. Len(lines) :
        i < j /\ lines[i].k = "error" /\ lines[j].k = "result"

\* The payload of the first result line of a stream (NoPayload: none)
NoPayload == [t |-> "none"]
FirstResult(lines) ==
    IF HasResultLine(lines)
    THEN lines[CHOOSE i \in 1 .. Len(lines) :
                 /\ lines[i].k = "result"
                 /\ \A j \in 1 .. i - 1 : lines[j].k # "result"].v
    ELSE NoPayload

\* ------------------------------------------------------------------------
\* Inputs of the public operations and answers of the server
\* ------------------------------------------------------------------------
Absent       == "<absent>"                  \* user_id=None
Contents     == {"", " ", "hello"}          \* content / query
UserArgs     == {Absent, " ", "alice"}      \* user_id argument
DefaultUsers == {"default-user"}            \* settings.memmachine_user_id
Limits       == {0, 5, 51}

\* str.strip()
Strip(s) == IF s = " " THEN "" ELSE s

TransportErrors == {"ConnectError", "TimeoutException", "ReadError"}

GetResponses ==
    {[kind |-> e, status |-> 0, header |-> None] : e \in TransportErrors}
    \cup {[kind |-> "response", status |-> st, header |-> h] :
            st \in {200, 400, 404, 500}, h \in Tokens \cup {None}}

InitResponses ==
    {[kind |-> e, status |-> 0, lines |-> <<>>] : e \in TransportErrors}
    \cup {[kind |-> "response", status |-> st, lines |-> ls] :
            st \in {200, 400, 500}, ls \in Streams(InitLines)}

NotifResponses ==
    {[kind |-> e, status |-> 0] : e \in TransportErrors}
    \cup {[kind |-> "response", status |-> st] : st \in {200, 202, 400, 500}}

ToolResponses ==
    {[kind |-> e, status |-> 0, lines |-> <<>>] : e \in TransportErrors}
    \cup {[kind |-> "response", status |-> st, lines |-> <<>>] :
            st \in {400, 401, 500}}
    \cup {[kind |-> "response", status |-> 200, lines |-> ls] :
            ls \in Streams(ToolLines)}

\* ------------------------------------------------------------------------
\* State
\* ------------------------------------------------------------------------
VARIABLES
    session_id,                \* self.session_id (None or a token)
    initialization_attempted,  \* self._initialization_attempted
    initialization_failed,     \* self._initialization_failed
    failure_reason,            \* self._failure_reason ("" is None)
    user_id,                   \* self.user_id
    call,                      \* per caller: the locals of its coroutine
    outcome,                   \* per caller: how its last call ended
    obs,                       \* per caller: what its current call did
    handshaken,                \* tokens whose initialize handshake succeeded
    memmachine_client,         \* the global _memmachine_client (None or an
                               \* instance; the fields above are its fields)
    cached_rag_service,        \* dependencies._cached_rag_service
    instances,                 \* clients constructed so far (1 .. instances)
    closed,                    \* instances whose http client was closed
    wired,                     \* instances that have sent a request
    life,                      \* the last call of a module-level function
    succeeded                  \* has a public call returned on this client
                               \* ("untracked" where no property asks)

vars == <<session_id, initialization_attempted, initialization_failed,
          failure_reason, user_id, call, outcome, obs, handshaken,
          memmachine_client, cached_rag_service, instances, closed, wired,
          life, succeeded>>

\* dependencies.py line 27: no LangChainRAGService cached yet; a cached one
\* holds the client it was constructed with (langchain_rag_service.py
\* line 73)
NoService == [made |-> FALSE, memmachine_client |-> None]
Service(client) == [made |-> TRUE, memmachine_client |-> client]

\* What the last call of get_memmachine_client, close_memmachine_client,
\* close or get_langchain_rag_service was and returned
NoLife == [op |-> "", client |-> None, service |-> NoService, was |-> None]

\* The coroutine of a caller that is not inside a public operation
IdleCall ==
    [pc |-> "idle", op |-> "", content |-> "", user |-> Absent, limit |-> 0,
     session_id |-> None, force_refresh |-> FALSE, retrying |-> FALSE,
     ctx |-> "", arg_user |-> "", arg_limit |-> 0, header_user |-> ""]

\* The answer a step has just received (req: which request it answers);
\* the next step of the caller forgets it
NoAnswer == [req |-> "", kind |-> "", status |-> 0, header |-> None]
Answer(req, resp) ==
    [req |-> req, kind |-> resp.kind, status |-> resp.status,
     header |-> IF req = "get" THEN resp.header ELSE None]

\* What a step notes of the answer it received: a specification that
\* watches the answers has them noted in obs.last, obs.wire and
\* obs.returned, one that does not leaves these fields empty
Noted(watch, seen, nothing) == IF watch THEN seen ELSE nothing

\* The record of one public call, reset when the next one starts (kept: the
\* call has not changed session_id, the failure flag or the failure reason;
\* startSucceeded: an earlier call on this client had returned;
\* toolErrors: the data lines with an "error" field in the last tools/call
\* answer;
\* last: the answer the step just taken received; wire: the result payload
\* the last tools/call answer carried; returned: what _call_tool made of
\* that answer)
NoObs ==
    [op |-> "", invalid |-> FALSE, init |-> "none",
     nGet |-> 0, nRefresh |-> 0, nInit |-> 0, nNotif |-> 0, nTool |-> 0,
     nStale |-> 0,
     startSession |-> FALSE, startFailed |-> FALSE,
     startSucceeded |-> FALSE, kept |-> TRUE,
     setup |-> "none",
     initSawResult |-> FALSE, initErrThenResult |-> FALSE,
     toolStatus |-> 0, toolSawResult |-> FALSE, toolErrThenResult |-> FALSE,
     toolTransport |-> FALSE, toolErrors |-> <<>>, last |-> NoAnswer,
     wire |-> NoPayload, returned |-> NoOutcome]

\* The fields of __init__ (lines 21-28), no caller inside a call, nothing
\* cached in dependencies.py
Fresh ==
    /\ session_id = None
    /\ initialization_attempted = FALSE
    /\ initialization_failed = FALSE
    /\ failure_reason = ""
    /\ user_id \in DefaultUsers
    /\ call = [c \in Callers |-> IdleCall]
    /\ outcome = [c \in Callers |-> NoOutcome]
    /\ obs = [c \in Callers |-> NoObs]
    /\ handshaken = {}
    /\ cached_rag_service = NoService
    /\ closed = {}
    /\ wired = {}
    /\ life = NoLife

\* get_memmachine_client has constructed the client
Init ==
    /\ Fresh
    /\ memmachine_client = 1
    /\ instances = 1
    /\ succeeded = "untracked"

\* The client and one caller's coroutine as one value M; the operators
\* below take M to the M after a piece of code ran.  M.out is the effect of
\* the public call once it has ended.
Cur(c) ==
    [sid |-> session_id, attempted |-> initialization_attempted,
     failed |-> initialization_failed, reason |-> failure_reason,
     hs |-> handshaken, call |-> call[c],
     obs |-> [obs[c] EXCEPT !.last = NoAnswer], out |-> NoOutcome]

Apply(c, M) ==
    /\ session_id' = M.sid
    /\ initialization_attempted' = M.attempted
    /\ initialization_failed' = M.failed
    /\ failure_reason' = M.reason
    /\ handshaken' = M.hs
    /\ call' = [call EXCEPT ![c] = IF M.out.kind = "none" THEN M.call
                                   ELSE IdleCall]
    /\ obs' = [obs EXCEPT ![c] =
                  [M.obs EXCEPT !.kept =
                      @ /\ M.sid = session_id
                        /\ M.failed = initialization_failed
                        /\ M.reason = failure_reason]]
    /\ outcome' = [outcome EXCEPT ![c] = M.out]
    /\ wired' = IF M.out.kind = "none" THEN wired \cup {memmachine_client}
                 ELSE wired
    /\ life' = NoLife
    /\ succeeded' = IF succeeded # "untracked" /\ M.out.kind = "return"
                     THEN "yes" ELSE succeeded
    /\ UNCHANGED <<user_id, memmachine_client, cached_rag_service,
                   instances, closed>>

\* ------------------------------------------------------------------------
\* The code of the client, from one await to the next
\* ------------------------------------------------------------------------
Max(a, b) == IF a > b THEN a ELSE b
Min(a, b) == IF a < b THEN a ELSE b

\* The public operation ends with effect eff
Finish(M, eff) == [M EXCEPT !.out = eff]

\* add_memory lines 406-424 / search_memory lines 464-483: what _call_tool
\* returned is parsed once more; what it raised passes to the caller
PublicFinish(M, eff) ==
    Finish(M, IF eff.kind = "return" THEN ParseResult(eff.value) ELSE eff)

\* _call_tool lines 250-257: a frame that retried wraps whatever its retry
\* raised in a ValueError; a returned value passes through (line 253)
CallToolExit(M, eff) ==
    PublicFinish(M, IF M.call.retrying /\ eff.kind = "raise"
                    THEN RaiseFrom("ValueError", "retry_failed", eff.msg)
                    ELSE eff)

\* (a tools/call POST that timed out is sent again)
ToolTransportError_Resent(M, kind) ==
    IF kind = "TimeoutException"
    THEN [M EXCEPT !.call.pc = "tool", !.obs.nTool = Inc(@)]
    ELSE CallToolExit(M, Raise(kind, "transport"))

\* _call_tool lines 229-240: the POST itself fails (connect error, timeout,
\* read error).  No try block encloses it, so the httpx exception leaves
\* the frame; nothing is sent again.
ToolTransportError(M, kind) == CallToolExit(M, Raise(kind, "transport"))

\* (the public operation raises without recording the failure)
SetupRaise_Unrecorded(M, eff) ==
    IF M.call.ctx = "public"
    THEN Finish([M EXCEPT !.failed = FALSE, !.reason = "",
                          !.obs.setup = "failed"],
                RaiseFrom("ValueError", "unavailable", eff.msg))
    ELSE CallToolExit([M EXCEPT !.obs.setup = "failed"], eff)

\* An exception leaves _initialize_session: add_memory lines 393-396 record
\* it and raise "MemMachine unavailable"; a _call_tool frame lets it pass
SetupRaise(M, eff) ==
    IF M.call.ctx = "public"
    THEN Finish([M EXCEPT !.failed = TRUE, !.reason = eff.msg,
                          !.obs.setup = "failed"],
                RaiseFrom("ValueError", "unavailable", eff.msg))
    ELSE CallToolExit([M EXCEPT !.obs.setup = "failed"], eff)

\* _get_session_id line 38: the GET is sent, the coroutine awaits at pos
SendGet(M, pos) ==
    [M EXCEPT !.call.pc = pos, !.obs.nGet = Inc(@)]

\* _initialize_session lines 110-135: the initialize POST is sent
SendInitializePost(M, tok) ==
    [M EXCEPT !.call.pc = "init", !.call.session_id = tok,
              !.obs.nInit = Inc(@)]

\* _call_tool lines 217-240: the tools/call POST is sent with the cached token
SendToolPost(M) ==
    [M EXCEPT !.call.pc = "tool", !.call.session_id = M.sid,
              !.call.header_user = user_id,              \* line 236
              !.obs.nTool = Inc(@), !.obs.toolStatus = 0]

\* _initialize_session lines 93-104, with _get_session_id lines 32-38
InitializeSession(M) ==
    IF M.failed
    THEN SetupRaise(M, RaiseFrom("ValueError", "previously_failed", M.reason))
    ELSE LET M1 == [M EXCEPT !.attempted = TRUE] IN
         IF M1.sid # None
         THEN SendInitializePost(M1, M1.sid)
         ELSE SendGet(M1, "get_init")

\* (a token is taken only from a GET answered 200)
GetSessionId_StatusChecked(M, resp) ==
    CASE resp.kind = "ConnectError" ->
            [M EXCEPT !.sid = None,
                      !.out = Raise("ValueError", "connect_failed")]
      [] resp.kind = "TimeoutException" ->
            [M EXCEPT !.sid = None, !.out = Raise("ValueError", "timeout")]
      [] resp.kind = "ReadError" ->
            [M EXCEPT !.out = Raise("ReadError", "transport")]
      [] resp.kind = "response" ->
            IF resp.status = 404
            THEN [M EXCEPT !.out = Raise("ValueError", "endpoint_not_found")]
            ELSE IF resp.header # None /\ resp.status = 200
            THEN [M EXCEPT !.sid = resp.header,
                           !.out = Return(JInt(resp.header))]
            ELSE [M EXCEPT !.sid = None,
                           !.out = Raise("ValueError",
                                         IF resp.status # 200
                                         THEN "status_without_session"
                                         ELSE "no_session_id")]

\* (a timeout leaves the cached token as it is)
GetSessionId_TokenKept(M, resp) ==
    CASE resp.kind = "ConnectError" ->
            [M EXCEPT !.sid = None,
                      !.out = Raise("ValueError", "connect_failed")]
      [] resp.kind = "TimeoutException" ->
            [M EXCEPT !.out = Raise("ValueError", "timeout")]
      [] resp.kind = "ReadError" ->
            [M EXCEPT !.out = Raise("ReadError", "transport")]
      [] resp.kind = "response" ->
            IF resp.status = 404
            THEN [M EXCEPT !.out = Raise("ValueError", "endpoint_not_found")]
            ELSE IF resp.header # None
            THEN [M EXCEPT !.sid = resp.header,
                           !.out = Return(JInt(resp.header))]
            ELSE [M EXCEPT !.sid = None,
                           !.out = Raise("ValueError",
                                         IF resp.status # 200
                                         THEN "status_without_session"
                                         ELSE "no_session_id")]

\* (the header is stored before the status is looked at)
GetSessionId_HeaderFirst(M, resp) ==
    CASE resp.kind = "ConnectError" ->
            [M EXCEPT !.sid = None,
                      !.out = Raise("ValueError", "connect_failed")]
      [] resp.kind = "TimeoutException" ->
            [M EXCEPT !.sid = None, !.out = Raise("ValueError", "timeout")]
      [] resp.kind = "ReadError" ->
            [M EXCEPT !.out = Raise("ReadError", "transport")]
      [] resp.kind = "response" ->
            IF resp.status = 404
            THEN [M EXCEPT !.sid = resp.header,
                           !.out = Raise("ValueError", "endpoint_not_found")]
            ELSE IF resp.header # None
            THEN [M EXCEPT !.sid = resp.header,
                           !.out = Return(JInt(resp.header))]
            ELSE [M EXCEPT !.sid = None,
                           !.out = Raise("ValueError",
                                         IF resp.status # 200
                                         THEN "status_without_session"
                                         ELSE "no_session_id")]

\* _get_session_id lines 44-89 on the answer to its GET; .out is its effect
GetSessionId(M, resp) ==
    CASE resp.kind = "ConnectError" ->
            [M EXCEPT !.sid = None,
                      !.out = Raise("ValueError", "connect_failed")]
      [] resp.kind = "TimeoutException" ->
            [M EXCEPT !.sid = None, !.out = Raise("ValueError", "timeout")]
      [] resp.kind = "ReadError" ->
            [M EXCEPT !.out = Raise("ReadError", "transport")]
      [] resp.kind = "response" ->
            IF resp.status = 404
            THEN [M EXCEPT !.out = Raise("ValueError", "endpoint_not_found")]
            ELSE IF resp.header # None
            THEN [M EXCEPT !.sid = resp.header,
                           !.out = Return(JInt(resp.header))]
            ELSE [M EXCEPT !.sid = None,
                           !.out = Raise("ValueError",
                                         IF resp.status # 200
                                         THEN "status_without_session"
                                         ELSE "no_session_id")]

\* (every status but 200 is retried after a token refresh)
ShouldRetry_AnyFailure(status, force_refresh) ==
    status # 200 /\ ~force_refresh

\* _call_tool line 246: is a non-200 answer retried after a token refresh?
ShouldRetry(status, force_refresh) ==
    status \in {400, 401} /\ ~force_refresh

\* _call_tool line 253: the force_refresh the re-issued call runs with (the
\* argument is not passed, so the default applies)
RetryForceRefresh == FALSE

\* _call_tool lines 208-240, entered with force_refresh = force
CallTool(M, force) ==
    LET M1 == [M EXCEPT !.call.force_refresh = force] IN
    IF M1.sid = None
    THEN InitializeSession([M1 EXCEPT !.call.ctx = "call_tool"])
    ELSE SendToolPost(M1)

\* (only the floor is applied)
ClampLimit_NoCeiling(limit) == IF limit < 1 THEN 1 ELSE limit

\* search_memory lines 461-462
ClampLimit(limit) ==
    IF limit < 1 \/ limit > 50 THEN Max(1, Min(50, limit)) ELSE limit

\* add_memory lines 398-415 / search_memory lines 454-474
PublicBody(M) ==
    LET user == IF M.call.user \in {Absent, ""} THEN user_id
                ELSE M.call.user
        limit == ClampLimit(M.call.limit)
    IN IF M.call.content = "" \/ Strip(M.call.content) = ""
       THEN Finish(M, Raise("ValueError",
                            IF M.call.op = "add_memory"
                            THEN "content_empty" ELSE "query_empty"))
       ELSE IF user = "" \/ Strip(user) = ""
       THEN Finish(M, Raise("ValueError", "user_empty"))
       ELSE CallTool([M EXCEPT !.call.arg_user = user,
                               !.call.arg_limit =
                                   IF M.call.op = "search_memory"
                                   THEN limit ELSE 0,
                               !.call.user = Absent],
                     FALSE)

\* (a notification that was not accepted fails the handshake)
NotificationVerdict_Strict(resp) ==
    IF resp.kind # "response" THEN Raise(resp.kind, "transport")
    ELSE IF resp.status \notin {200, 202}
    THEN Raise("ValueError", "notification_rejected")
    ELSE Return(JNull)

\* _initialize_session lines 170-192: the notification POST.  An unexpected
\* status is passed over (lines 187-189) and `except Exception` swallows
\* whatever the POST raises (lines 190-192).
NotificationVerdict(resp) == Return(JNull)

\* _initialize_session returned: back in the public operation (line 398 /
\* 454) or in _call_tool (lines 213-240)
AfterInitialize(M) ==
    IF M.call.ctx = "public" THEN PublicBody(M)
    ELSE IF M.sid = None
    THEN CallToolExit(M, Raise("ValueError", "no_session_available"))
    ELSE SendToolPost(M)

\* (every call sets the session up again)
NeedsSetup_Always(sid, failed) == TRUE

\* add_memory line 385 / search_memory line 441
NeedsSetup(sid, failed) == sid = None \/ failed

\* (the flag is cleared, the reason stays)
ClearFailureState_ReasonKept(M) ==
    IF M.failed THEN [M EXCEPT !.failed = FALSE, !.sid = None] ELSE M

\* (the failure state is left as it is)
ClearFailureState_Kept(M) == M

\* add_memory lines 388-391 / search_memory lines 444-447
ClearFailureState(M) ==
    IF M.failed
    THEN [M EXCEPT !.failed = FALSE, !.reason = "", !.sid = None]
    ELSE M

\* add_memory lines 384-415 / search_memory lines 440-474, up to the first
\* await
PublicCall(M) ==
    IF NeedsSetup(M.sid, M.failed)
    THEN InitializeSession(ClearFailureState([M EXCEPT !.call.ctx = "public"]))
    ELSE PublicBody(M)

\* The arguments a public operation must reject: empty content / query, or
\* an empty principal once the default is applied
InvalidArguments(content, user) ==
    LET principal == IF user \in {Absent, ""} THEN user_id ELSE user IN
    Strip(content) = "" \/ Strip(principal) = ""

\* The coroutine of a public call that has just been entered
Entered(c, op, content, limit, user) ==
    [Cur(c) EXCEPT
        !.call = [IdleCall EXCEPT !.pc = "entry", !.op = op,
                                  !.content = content, !.limit = limit,
                                  !.user = user],
        !.obs = [NoObs EXCEPT !.op = op,
                              !.invalid = InvalidArguments(content, user),
                              !.startSession = (session_id # None),
                              !.startSucceeded = (succeeded = "yes"),
                              !.startFailed = initialization_failed]]

\* ------------------------------------------------------------------------
\* Actions
\* ------------------------------------------------------------------------
\* Every step is written once, over the inputs and the answers it draws
\* from (...Of; watch: the answer is noted in obs), and then taken over the
\* full sets of the sequential model.

\* await client.add_memory(content, user_id)
AddMemoryOf(c, contents, users) ==
    /\ call[c].pc = "idle"
    /\ \E content \in contents, user \in users :
          Apply(c, PublicCall(Entered(c, "add_memory", content, 0, user)))

AddMemory(c) == AddMemoryOf(c, Contents, UserArgs)

\* await client.search_memory(query, limit, user_id)
SearchMemoryOf(c, queries, limits, users) ==
    /\ call[c].pc = "idle"
    /\ \E query \in queries, limit \in limits, user \in users :
          Apply(c, PublicCall(Entered(c, "search_memory", query, limit, user)))

SearchMemory(c) == SearchMemoryOf(c, Contents, Limits, UserArgs)

\* The token GET of _initialize_session (line 104) is answered
GetSessionIdInInitializeOf(c, answers, watch) ==
    /\ call[c].pc = "get_init"
    /\ \E resp \in answers :
          LET G   == GetSessionId(Cur(c), resp)
              eff == G.out
              M   == [G EXCEPT !.out = NoOutcome,
                               !.obs.last =
                                   Noted(watch, Answer("get", resp), NoAnswer)]
          IN Apply(c, IF eff.kind = "raise"
                      THEN SetupRaise([M EXCEPT !.failed = TRUE,
                                                !.reason = eff.msg], eff)
                      ELSE SendInitializePost(M, eff.value.n))

GetSessionIdInInitialize(c) ==
    GetSessionIdInInitializeOf(c, GetResponses, FALSE)

\* The token GET of the retry (line 251) is answered
GetSessionIdInRetryOf(c, answers, watch) ==
    /\ call[c].pc = "get_retry"
    /\ \E resp \in answers :
          LET G   == GetSessionId(Cur(c), resp)
              eff == G.out
              M   == [G EXCEPT !.out = NoOutcome,
                               !.obs.last =
                                   Noted(watch, Answer("get", resp), NoAnswer)]
          IN Apply(c, IF eff.kind = "raise"
                      THEN CallToolExit(M, eff)
                      ELSE CallTool(M, RetryForceRefresh))

GetSessionIdInRetry(c) == GetSessionIdInRetryOf(c, GetResponses, FALSE)

\* The initialize POST (line 124) is answered
InitializeResponseOf(c, answers) ==
    /\ call[c].pc = "init"
    /\ \E resp \in answers :
          LET M == [Cur(c) EXCEPT
                       !.obs.initSawResult = HasResultLine(resp.lines),
                       !.obs.initErrThenResult = ErrorThenResult(resp.lines)]
          IN Apply(c,
                IF resp.kind # "response"
                THEN SetupRaise([M EXCEPT !.obs.init = "failed"],
                                Raise(resp.kind, "transport"))
                ELSE LET v == InitializeVerdict(resp.status,
                                                ScanInitialize(resp.lines))
                     IN IF v.kind = "raise"
                        THEN SetupRaise([M EXCEPT !.obs.init = "failed"], v)
                        ELSE [M EXCEPT !.call.pc = "notif",
                                       !.obs.init = "ok",
                                       !.obs.nNotif = Inc(@),
                                       !.hs = @ \cup {M.call.session_id}])

InitializeResponse(c) == InitializeResponseOf(c, InitResponses)

\* The notifications/initialized POST (line 172) is answered or fails
NotificationResponseOf(c, answers, watch) ==
    /\ call[c].pc = "notif"
    /\ \E resp \in answers :
          LET v == NotificationVerdict(resp)
              M == [Cur(c) EXCEPT
                       !.obs.last =
                           Noted(watch, Answer("notif", resp), NoAnswer)]
          IN Apply(c, IF v.kind = "raise"
                      THEN SetupRaise(M, v)
                      ELSE AfterInitialize([M EXCEPT !.obs.setup = "ok"]))

NotificationResponse(c) ==
    NotificationResponseOf(c, NotifResponses, FALSE)

\* The tools/call POST (line 229) is answered
ToolResponseOf(c, answers, watch) ==
    /\ call[c].pc = "tool"
    /\ \E resp \in answers :
          LET M == [Cur(c) EXCEPT
                       !.obs.last =
                           Noted(watch, Answer("tool", resp), NoAnswer),
                       !.obs.wire =
                           Noted(watch, FirstResult(resp.lines), NoPayload),
                       !.obs.returned =
                           IF watch /\ resp.kind = "response"
                                 /\ resp.status = 200
                           THEN ScanTool(resp.lines) ELSE NoOutcome,
                       !.obs.toolErrors =
                           Noted(watch, ErrorLines(resp.lines), <<>>),
                       !.obs.toolStatus = resp.status,
                       !.obs.toolTransport = (resp.kind # "response"),
                       !.obs.toolSawResult = HasResultLine(resp.lines),
                       !.obs.toolErrThenResult = ErrorThenResult(resp.lines),
                       !.obs.nStale = IF resp.status \in {400, 401}
                                      THEN Inc(@) ELSE @]
          IN Apply(c,
                IF resp.kind # "response"
                THEN ToolTransportError(M, resp.kind)
                ELSE IF resp.status # 200
                THEN IF ShouldRetry(resp.status, M.call.force_refresh)
                     THEN SendGet([M EXCEPT !.sid = None,
                                            !.call.retrying = TRUE,
                                            !.obs.nRefresh = Inc(@)],
                                  "get_retry")
                     ELSE CallToolExit(M, Raise("ValueError", "tool_failed"))
                ELSE CallToolExit(M, ScanTool(resp.lines)))

ToolResponse(c) == ToolResponseOf(c, ToolResponses, FALSE)

Responses(c) ==
    \/ GetSessionIdInInitialize(c)
    \/ GetSessionIdInRetry(c)
    \/ InitializeResponse(c)
    \/ NotificationResponse(c)
    \/ ToolResponse(c)

Next ==
    \E c \in SeqCallers :
        \/ AddMemory(c)
        \/ SearchMemory(c)
        \/ GetSessionIdInInitialize(c)
        \/ GetSessionIdInRetry(c)
        \/ InitializeResponse(c)
        \/ NotificationResponse(c)
        \/ ToolResponse(c)

\* A single caller issuing one public call after another
Spec == Init /\ [][Next]_vars

\* The same, where every network request that was sent is answered
LiveSpec == Spec /\ \A c \in SeqCallers : WF_vars(Responses(c))

\* ------------------------------------------------------------------------
\* The memories routes (backend/app/api/routes/memories.py)
\* ------------------------------------------------------------------------
\* The route looks for "not available" / "not found" (in the lowercased
\* message) or "Failed to connect" in the message of a ValueError.  Of the
\* client's own messages two contain one of them: "... endpoint not found at
\* ..." (line 47) and "Failed to connect to MemMachine MCP server ..."
\* (line 80).  "Timeout connecting to ...", "... without a session ID",
\* "... did not return a session ID", "No session ID available ...", "No
\* result found ...", "Failed to call tool ..." and the validation messages
\* contain none.
MarkedText(msg) == msg \in {"endpoint_not_found", "connect_failed"}

\* "MemMachine unavailable: {e}" (line 396) and "... even after session
\* refresh: ... Retry error: {retry_error}" (line 256) embed the text of the
\* exception they wrap
Embeds(msg) == msg \in {"unavailable", "retry_failed"}

\* add_memory route lines 34-53 / search_memory route lines 70-89: the HTTP
\* status the route answers with.  json.JSONDecodeError is a subclass of
\* ValueError.
RouteStatus(eff) ==
    IF eff.kind # "raise" THEN 200
    ELSE IF eff.exc \in {"ValueError", "JSONDecodeError"}
    THEN IF MarkedText(eff.msg) \/ (Embeds(eff.msg) /\ MarkedText(eff.detail))
         THEN 503
         ELSE 400
    ELSE 500

\* ------------------------------------------------------------------------
\* Two callers sharing the client
\* ------------------------------------------------------------------------
\* get_memmachine_client hands the same client to every request handler, and
\* the handlers' coroutines interleave at their awaits.  The two callers
\* pass valid arguments and the server draws its answers from these sets;
\* it rejects no tools/call POST, so the token refresh of lines 246-257
\* stays with the sequential model.
SharedContents == {"hello"}
SharedUsers    == {Absent}
SharedLimits   == {5}

SharedGetResponses ==
    {[kind |-> e, status |-> 0, header |-> None] :
        e \in {"ConnectError", "TimeoutException"}}
    \cup {[kind |-> "response", status |-> 200, header |-> h] : h \in Tokens}

SharedInitResponses ==
    {[kind |-> "response", status |-> 200,
      lines |-> <<ResultLine(InitResult)>>],
     [kind |-> "response", status |-> 500, lines |-> <<>>]}

SharedNotifResponses == {[kind |-> "response", status |-> 202]}

SharedToolResponses ==
    {[kind |-> "response", status |-> 200,
      lines |-> <<ResultLine(ResTextObj)>>],
     [kind |-> "TimeoutException", status |-> 0, lines |-> <<>>]}

SharedNext ==
    \E c \in Callers :
        \/ AddMemoryOf(c, SharedContents, SharedUsers)
        \/ SearchMemoryOf(c, SharedContents, SharedLimits, SharedUsers)
        \/ GetSessionIdInInitializeOf(c, SharedGetResponses, TRUE)
        \/ InitializeResponseOf(c, SharedInitResponses)
        \/ NotificationResponseOf(c, SharedNotifResponses, FALSE)
        \/ ToolResponseOf(c, SharedToolResponses, TRUE)

\* Two callers issuing public calls on the one shared client
SharedSpec == Init /\ [][SharedNext]_vars

\* ------------------------------------------------------------------------
\* One caller, every answer watched
\* ------------------------------------------------------------------------
\* The sequential caller again, with the answer to every token GET, every
\* notification POST and every tools/call POST noted.  The token GET draws from all its answers;
\* the streams are the ones that matter to the outcome of a step.
WatchedContents == {"", "hello"}

WatchedInitResponses ==
    {[kind |-> "response", status |-> 200,
      lines |-> <<ResultLine(InitResult)>>],
     [kind |-> "response", status |-> 500, lines |-> <<>>],
     [kind |-> "TimeoutException", status |-> 0, lines |-> <<>>]}

WatchedToolResponses ==
    {[kind |-> e, status |-> 0, lines |-> <<>>] : e \in TransportErrors}
    \cup {[kind |-> "response", status |-> st, lines |-> <<>>] :
            st \in {401, 500}}
    \cup {[kind |-> "response", status |-> 200, lines |-> ls] :
            ls \in {<<ResultLine(ResTextObj)>>,
                    <<ErrorLine(ErrInvalidParams)>>}}

WatchedNext ==
    \E c \in SeqCallers :
        \/ AddMemoryOf(c, WatchedContents, SharedUsers)
        \/ SearchMemoryOf(c, WatchedContents, SharedLimits, SharedUsers)
        \/ GetSessionIdInInitializeOf(c, GetResponses, TRUE)
        \/ GetSessionIdInRetryOf(c, GetResponses, TRUE)
        \/ InitializeResponseOf(c, WatchedInitResponses)
        \/ NotificationResponseOf(c, NotifResponses, TRUE)
        \/ ToolResponseOf(c, WatchedToolResponses, TRUE)

WatchedSpec == Init /\ [][WatchedNext]_vars

\* The same caller and answers, with the client remembering whether one of
\* its public calls has returned
TrackedInit ==
    /\ Fresh
    /\ memmachine_client = 1
    /\ instances = 1
    /\ succeeded = "no"

TrackedSpec == TrackedInit /\ [][WatchedNext]_vars

\* ------------------------------------------------------------------------
\* One caller, a healthy server, every payload shape
\* ------------------------------------------------------------------------
\* The session setup always succeeds and every tools/call POST is answered
\* 200 with one result line; what varies is the shape of the result payload
\* and the limit the caller asks for.
PayloadLimits == {-3, 0, 1, 5, 50, 51, 100}

PayloadGetResponses ==
    {[kind |-> "response", status |-> 200, header |-> h] : h \in Tokens}

PayloadInitResponses ==
    {[kind |-> "response", status |-> 200,
      lines |-> <<ResultLine(InitResult)>>]}

PayloadToolResponses ==
    {[kind |-> "response", status |-> 200, lines |-> <<ResultLine(r)>>] :
        r \in ResultShapes}

PayloadNext ==
    \E c \in SeqCallers :
        \/ AddMemoryOf(c, SharedContents, SharedUsers)
        \/ SearchMemoryOf(c, SharedContents, PayloadLimits, SharedUsers)
        \/ GetSessionIdInInitializeOf(c, PayloadGetResponses, TRUE)
        \/ InitializeResponseOf(c, PayloadInitResponses)
        \/ NotificationResponseOf(c, SharedNotifResponses, FALSE)
        \/ ToolResponseOf(c, PayloadToolResponses, TRUE)

PayloadSpec == Init /\ [][PayloadNext]_vars

\* ------------------------------------------------------------------------
\* One caller, a healthy server, streams without a result
\* ------------------------------------------------------------------------
\* The session setup always succeeds and every tools/call POST is answered
\* 200 with a stream that carries no result line; what varies is what its
\* data lines carry under "error".
ErrorToolLines ==
    {EventLine, GarbageLine, OtherLine} \cup {ErrorLine(e) : e \in ErrorShapes}

ErrorToolResponses ==
    {[kind |-> "response", status |-> 200, lines |-> ls] :
        ls \in Streams(ErrorToolLines)}

ErrorNext ==
    \E c \in SeqCallers :
        \/ AddMemoryOf(c, SharedContents, SharedUsers)
        \/ SearchMemoryOf(c, SharedContents, SharedLimits, SharedUsers)
        \/ GetSessionIdInInitializeOf(c, PayloadGetResponses, TRUE)
        \/ InitializeResponseOf(c, PayloadInitResponses)
        \/ NotificationResponseOf(c, SharedNotifResponses, FALSE)
        \/ ToolResponseOf(c, ErrorToolResponses, TRUE)

ErrorSpec == Init /\ [][ErrorNext]_vars

\* ------------------------------------------------------------------------
\* The global client and the cached RAG service
\* ------------------------------------------------------------------------
\* The module globals as one value G (made: the call constructed a client);
\* the operators below take G to the G after a module-level function ran.
Globals ==
    [client |-> memmachine_client, rag |-> cached_rag_service,
     instances |-> instances, closed |-> closed, made |-> FALSE]

\* (the constructor acquires a token)
NewClient_Eager ==
    [sid |-> 1, attempted |-> TRUE, failed |-> FALSE, reason |-> ""]

\* __init__ lines 23-28: the session fields of a client just constructed
NewClient ==
    [sid |-> None, attempted |-> FALSE, failed |-> FALSE, reason |-> ""]

\* get_memmachine_client lines 492-504: construct the client if the global
\* is None, return the global
GetClient(G) ==
    IF G.client = None
    THEN [G EXCEPT !.client = G.instances + 1, !.instances = @ + 1,
                   !.made = TRUE]
    ELSE G

\* close line 487: aclose() on the client's http client, which does nothing
\* on one that is closed already
Close(G, i) == [G EXCEPT !.closed = @ \cup {i}]

\* (the global keeps the client it closed)
CloseClient_SlotKept(G) ==
    IF G.client # None THEN Close(G, G.client) ELSE G

\* close_memmachine_client lines 506-511
CloseClient(G) ==
    IF G.client # None THEN [Close(G, G.client) EXCEPT !.client = None]
    ELSE G

\* get_langchain_rag_service lines 30-45, after FastAPI has resolved its
\* dependency get_memmachine_client (line 31)
GetRagService(G) ==
    LET D == GetClient(G)
    IN IF ~D.rag.made THEN [D EXCEPT !.rag = Service(D.client)] ELSE D

\* The globals after a module-level function ran; a client it constructed
\* starts with the fields of __init__
ApplyGlobals(G, op, returned) ==
    /\ memmachine_client' = G.client
    /\ cached_rag_service' = G.rag
    /\ instances' = G.instances
    /\ closed' = G.closed
    /\ life' = [op |-> op, client |-> returned.client,
                service |-> returned.service, was |-> memmachine_client]
    /\ session_id' = IF G.made THEN NewClient.sid ELSE session_id
    /\ initialization_attempted' =
           IF G.made THEN NewClient.attempted ELSE initialization_attempted
    /\ initialization_failed' =
           IF G.made THEN NewClient.failed ELSE initialization_failed
    /\ failure_reason' = IF G.made THEN NewClient.reason ELSE failure_reason
    /\ handshaken' = IF G.made THEN {} ELSE handshaken
    /\ succeeded' = IF G.made /\ succeeded # "untracked" THEN "no"
                     ELSE succeeded
    /\ UNCHANGED <<user_id, call, outcome, obs, wired>>

AllIdle == \A c \in Callers : call[c].pc = "idle"

\* await get_memmachine_client()
GetMemmachineClient ==
    /\ memmachine_client = None => instances < MaxClients
    /\ LET G == GetClient(Globals)
       IN ApplyGlobals(G, "get_memmachine_client",
                       [client |-> G.client, service |-> NoService])

\* await close_memmachine_client(): the shutdown hook of the lifespan
\* (main.py line 52), run when no request is being served
CloseMemmachineClient ==
    /\ AllIdle
    /\ ApplyGlobals(CloseClient(Globals), "close_memmachine_client",
                    [client |-> None, service |-> NoService])

\* await client.close() by a holder of a client that has left the global
CloseAgain ==
    \E i \in (1 .. instances) \ {memmachine_client} :
        ApplyGlobals(Close(Globals, i), "close",
                     [client |-> i, service |-> NoService])

\* get_langchain_rag_service as FastAPI calls it for a request
GetLangchainRagService ==
    /\ memmachine_client = None => instances < MaxClients
    /\ LET G == GetRagService(Globals)
       IN ApplyGlobals(G, "get_langchain_rag_service",
                       [client |-> G.client, service |-> G.rag])

\* A process from the import of the modules on: no client constructed yet
LifecycleInit ==
    /\ Fresh
    /\ memmachine_client = None
    /\ instances = 0
    /\ succeeded = "untracked"

\* The public operations are called on the client the global holds (the
\* routes get it from get_memmachine_client)
LifecycleNext ==
    \/ GetMemmachineClient
    \/ CloseMemmachineClient
    \/ CloseAgain
    \/ GetLangchainRagService
    \/ \E c \in SeqCallers :
          \/ memmachine_client # None
             /\ AddMemoryOf(c, SharedContents, SharedUsers)
          \/ memmachine_client # None
             /\ SearchMemoryOf(c, SharedContents, SharedLimits, SharedUsers)
          \/ GetSessionIdInInitializeOf(c, SharedGetResponses, FALSE)
          \/ InitializeResponseOf(c, SharedInitResponses)
          \/ NotificationResponseOf(c, SharedNotifResponses, FALSE)
          \/ ToolResponseOf(c, SharedToolResponses, FALSE)

LifecycleSpec == LifecycleInit /\ [][LifecycleNext]_vars

\* ------------------------------------------------------------------------
\* Properties
\* ------------------------------------------------------------------------
Idle(c) == call[c].pc = "idle"
Ended(c) == Idle(c) /\ outcome[c].kind # "none"
NoRequests(c) ==
    obs[c].nGet = 0 /\ obs[c].nInit = 0 /\ obs[c].nNotif = 0
        /\ obs[c].nTool = 0
ValidationFailure(c) ==
    /\ outcome[c].kind = "raise"
    /\ outcome[c].exc = "ValueError"
    /\ outcome[c].msg \in {"content_empty", "query_empty", "user_empty"}

\* C1: bounded retry.  On a client that holds a session, once the tool-call
\* POST and the POST re-issued after the token refresh have both been
\* answered 400 or 401, the call has raised, with exactly two tool-call POSTs
\* and exactly one token re-acquisition GET issued for it.
C1_BoundedRetry ==
    \A c \in Callers :
        (obs[c].startSession /\ obs[c].nStale >= 2)
            => /\ Ended(c)
               /\ outcome[c].kind = "raise"
               /\ obs[c].nTool = 2
               /\ obs[c].nRefresh = 1

\* C2: retry transparency.  A call whose tool-call POST was answered 400 or
\* 401 exactly once, whose token re-acquisition succeeded and whose re-issued
\* POST was answered 200 with a result line, returns and raises nothing.
C2_RetryTransparency ==
    \A c \in Callers :
        (Ended(c) /\ obs[c].nStale = 1 /\ obs[c].nTool = 2
            /\ obs[c].toolStatus = 200 /\ obs[c].toolSawResult)
            => outcome[c].kind = "return"

\* C3: validation before network.  In every client state a call with empty
\* content / query or an empty resolved principal raises the validation
\* failure, has issued no request at all and has left session_id, the
\* failure flag and the failure reason as they were.
C3_ValidationBeforeNetwork ==
    \A c \in Callers :
        obs[c].invalid
            => /\ Ended(c)
               /\ ValidationFailure(c)
               /\ NoRequests(c)
               /\ obs[c].kept

\* C4: protocol ordering.  Every tools/call POST in flight carries a token
\* for which this client sent an initialize POST and saw its result.
C4_ToolCallOnInitializedToken ==
    \A c \in Callers :
        call[c].pc = "tool" => call[c].session_id \in handshaken

\* C5 as claimed: a call that starts with a session-setup failure recorded
\* raises without issuing any network request.
C5_FailFast ==
    \A c \in Callers :
        obs[c].startFailed
            => Ended(c) /\ outcome[c].kind = "raise" /\ NoRequests(c)

\* C5 as amended: a call that starts with a session-setup failure recorded
\* never fails fast.  It clears the recorded failure and starts the session
\* setup again with a token GET (while that GET is in flight the client has
\* no token, no failure flag and no reason), and it never raises the
\* "previously failed" error.
C5_ClearsAndRetries ==
    \A c \in Callers :
        obs[c].startFailed
            => /\ obs[c].nGet >= 1
               /\ outcome[c].msg # "previously_failed"
               /\ outcome[c].detail # "previously_failed"
               /\ (call[c].pc = "get_init" /\ obs[c].nGet = 1)
                     => /\ session_id = None
                        /\ ~initialization_failed
                        /\ failure_reason = ""

\* C5 witness: a call that started with a recorded failure went through the
\* whole session setup again and returned a result.
C5_Witness ==
    \E c \in Callers :
        /\ obs[c].startFailed
        /\ Ended(c)
        /\ outcome[c].kind = "return"
        /\ obs[c].nGet = 1 /\ obs[c].nInit = 1 /\ obs[c].nTool = 1

\* C6: initialize acceptance.  The handshake succeeds exactly when the
\* response stream of the initialize POST contains a result line, whatever
\* the status and whatever error line came before it.
C6_InitializeAcceptance ==
    \A c \in Callers :
        obs[c].init # "none"
            => (obs[c].init = "ok" <=> obs[c].initSawResult)

\* C7: classified failures only.  An add_memory call with valid arguments
\* that raises, raises the client's own failure kind (ValueError).
C7_ClassifiedFailuresOnly ==
    \A c \in Callers :
        (Ended(c) /\ obs[c].op = "add_memory" /\ ~obs[c].invalid
            /\ outcome[c].kind = "raise")
            => outcome[c].exc = "ValueError"

\* C8: defensive scanning in a tool call.  A call whose tools/call POST was
\* answered 200 with an error line followed later by a result line returns
\* and raises nothing.
C8_ErrorThenResultReturns ==
    \A c \in Callers :
        (Ended(c) /\ obs[c].toolStatus = 200 /\ obs[c].toolErrThenResult)
            => outcome[c].kind = "return"

\* C9: session invariant.  Between public operations the session is
\* uninitialized (no token, no failure), initialized (token cached and its
\* handshake completed, no failure) or failed (flag set, reason recorded).
Uninitialized ==
    session_id = None /\ ~initialization_failed /\ failure_reason = ""
Initialized ==
    session_id # None /\ session_id \in handshaken
        /\ ~initialization_failed /\ failure_reason = ""
Failed == initialization_failed /\ failure_reason # ""

C9_SessionInvariant ==
    (\A c \in Callers : Idle(c)) => (Uninitialized \/ Initialized \/ Failed)

\* C10: termination.  When every request that was sent is answered, every
\* public call that was started ends.
C10_Termination ==
    \A c \in Callers : (call[c].pc # "idle") ~> (call[c].pc = "idle")

\* The token GET of caller c has just been answered with an HTTP response
GetAnswered(c) == obs[c].last.req = "get" /\ obs[c].last.kind = "response"

\* C11: token acquisition succeeds whenever the header is present.  A token
\* GET answered with any status other than 404 that carries the
\* mcp-session-id header stores that token as the session token and returns
\* it without raising: the caller goes on to send its next request with it.
C11_HeaderMeansToken ==
    \A c \in Callers :
        (GetAnswered(c) /\ obs[c].last.status # 404
            /\ obs[c].last.header # None)
            => /\ session_id = obs[c].last.header
               /\ outcome[c].kind = "none"
               /\ call[c].pc \in {"init", "tool"}
               /\ call[c].session_id = obs[c].last.header

\* C11 witness: a GET answered 400 with a header, its token stored and the
\* initialize POST sent with it.
C11_Witness ==
    \E c \in Callers :
        /\ GetAnswered(c)
        /\ obs[c].last.status = 400
        /\ obs[c].last.header # None
        /\ session_id = obs[c].last.header
        /\ call[c].pc = "init"

\* C12: a token GET answered 404 raises a failure and stores no token,
\* with or without the mcp-session-id header; a GET answered without the
\* header raises a failure for every status.
C12_NotFoundOrNoHeaderFails ==
    \A c \in Callers :
        (GetAnswered(c)
            /\ (obs[c].last.status = 404 \/ obs[c].last.header = None))
            => /\ Ended(c)
               /\ outcome[c].kind = "raise"
               /\ outcome[c].exc = "ValueError"
               /\ session_id = None

\* C12 witness: a GET answered 404 with a header ended the call with a
\* failure and no token stored.
C12_Witness ==
    \E c \in Callers :
        /\ GetAnswered(c)
        /\ obs[c].last.status = 404
        /\ obs[c].last.header # None
        /\ Ended(c)
        /\ outcome[c].kind = "raise"
        /\ session_id = None

\* The tools/call POST of caller c has just timed out
ToolTimedOut(c) ==
    obs[c].last.req = "tool" /\ obs[c].last.kind = "TimeoutException"

\* C13: no retry on timeout.  When a tools/call POST times out the call has
\* failed at once: nothing further is sent (no tool-call POST, no token
\* GET), and a call none of whose POSTs was answered 400/401 has issued
\* exactly one tool-call POST and no token re-acquisition.
C13_NoRetryOnTimeout ==
    \A c \in Callers :
        ToolTimedOut(c)
            => /\ Ended(c)
               /\ outcome[c].kind = "raise"
               /\ obs[c].nStale = 0
                     => obs[c].nTool = 1 /\ obs[c].nRefresh = 0

\* C13 witness: an add_memory call whose only tools/call POST timed out has
\* ended with a failure.
C13_Witness ==
    \E c \in Callers :
        /\ ToolTimedOut(c)
        /\ obs[c].op = "add_memory"
        /\ Ended(c)
        /\ outcome[c].kind = "raise"
        /\ obs[c].nTool = 1
        /\ obs[c].nRefresh = 0

\* Caller c takes the step in which its token GET fails to connect or
\* times out
GetTransportFailure(c) ==
    /\ call[c].pc \in {"get_init", "get_retry"}
    /\ obs'[c].last.req = "get"
    /\ obs'[c].last.kind \in {"ConnectError", "TimeoutException"}

\* C14: a connect failure or a timeout of the token GET leaves the client
\* with no cached token, also when a token had been cached while the GET
\* was in flight, and the acquisition raises a failure.
C14_TransportFailureClearsToken ==
    [][\A c \in Callers :
          GetTransportFailure(c)
              => /\ session_id' = None
                 /\ call'[c].pc = "idle"
                 /\ outcome'[c].kind = "raise"
                 /\ outcome'[c].exc = "ValueError"]_vars

\* C14 witness: the token GET of one caller has timed out and the client
\* holds no token, although the other caller had obtained one and is in
\* the middle of its handshake with it.
C14_Witness ==
    \E c, d \in Callers :
        /\ c # d
        /\ obs[c].last.req = "get"
        /\ obs[c].last.kind = "TimeoutException"
        /\ Ended(c)
        /\ session_id = None
        /\ call[d].pc = "init"
        /\ call[d].session_id # None

\* Callers with a request of the session setup in flight
InTokenGet  == {c \in Callers : call[c].pc \in {"get_init", "get_retry"}}
InHandshake == {c \in Callers : call[c].pc \in {"init", "notif"}}

\* C15: concurrent first use.  At any time at most one token acquisition
\* and at most one initialize handshake is in flight on the shared client.
C15_SingleFlight ==
    Cardinality(InTokenGet) <= 1 /\ Cardinality(InHandshake) <= 1

\* The last tools/call answer of caller c carried a result payload that is a
\* mapping with a structuredContent field
StructuredAnswer(c) ==
    IsDict(obs[c].wire) /\ "structuredContent" \in DOMAIN obs[c].wire.m

\* C16: structuredContent precedence.  A call whose tool result is a mapping
\* with a structuredContent field returns exactly the value of that field,
\* whatever sibling content field the result has and whatever keys the
\* value itself contains.
C16_StructuredContentReturned ==
    \A c \in Callers :
        (Ended(c) /\ StructuredAnswer(c))
            => outcome[c] = Return(obs[c].wire.m["structuredContent"])

\* The five-rule chain of the result-shape normalization, as the claim
\* states it
HasText(v) ==
    IsDict(v) /\ "text" \in DOMAIN v.m /\ IsStr(v.m["text"])
        /\ v.m["text"].s # ""
FirstHasText(v) == IsList(v) /\ Len(v.items) > 0 /\ HasText(v.items[1])
DecodeOrWrap(s) == IF Decodable(s) THEN JsonLoads(s) ELSE WrapText(s)
FiveRules(r) ==
    IF FirstHasText(r) THEN DecodeOrWrap(r.items[1].m["text"].s)
    ELSE IF IsDict(r) /\ "structuredContent" \in DOMAIN r.m
    THEN r.m["structuredContent"]
    ELSE IF IsDict(r) /\ "content" \in DOMAIN r.m
    THEN LET content == r.m["content"] IN
         IF FirstHasText(content)
         THEN DecodeOrWrap(content.items[1].m["text"].s)
         ELSE IF IsDict(content) THEN content
         ELSE IF IsStr(content) THEN DecodeOrWrap(content.s)
         ELSE r
    ELSE r

\* C17: result-shape normalization.  For every result payload a tools/call
\* answer carries, _call_tool returns what the ordered five-rule chain makes
\* of it, and raises nothing.
C17_FiveRuleChain ==
    \A c \in Callers :
        obs[c].wire # NoPayload
            => obs[c].returned = Return(FiveRules(obs[c].wire))

\* The limit the claim expects in the arguments of the tool call
ExpectedLimit(limit) ==
    IF limit < 1 THEN 1 ELSE IF limit > 50 THEN 50 ELSE limit

\* C18: search_memory never rejects a limit.  The tools/call POST of every
\* search_memory call carries limit 1 for a limit below 1, 50 for a limit
\* above 50 and the given limit otherwise, and no search_memory call with a
\* non-empty query and principal raises a validation failure.
C18_LimitClamped ==
    \A c \in Callers :
        obs[c].op = "search_memory"
            => /\ call[c].pc = "tool"
                     => call[c].arg_limit = ExpectedLimit(call[c].limit)
               /\ ~obs[c].invalid => ~ValidationFailure(c)

\* C18 witness: a search_memory call asked for limit 100 and its tools/call
\* POST is in flight with limit 50.
C18_Witness ==
    \E c \in Callers :
        /\ call[c].pc = "tool"
        /\ call[c].op = "search_memory"
        /\ call[c].limit = 100
        /\ call[c].arg_limit = 50

\* The call of caller c has just ended because the service could not be
\* reached: its token GET found no endpoint (404), failed to connect, timed
\* out or brought no token, or its tools/call POST failed to connect or
\* timed out
UnreachableService(c) ==
    /\ Ended(c)
    /\ outcome[c].kind = "raise"
    /\ \/ /\ obs[c].last.req \in {"get", "tool"}
          /\ obs[c].last.kind \in {"ConnectError", "TimeoutException"}
       \/ /\ GetAnswered(c)
          /\ obs[c].last.status = 404 \/ obs[c].last.header = None

\* C19: service-unavailable is distinguishable at the routes.  Every failure
\* caused by an unreachable service is answered with HTTP 503, and every
\* local validation failure with another status.
C19_UnavailableIs503 ==
    \A c \in SeqCallers :
        /\ UnreachableService(c) => RouteStatus(outcome[c]) = 503
        /\ (Ended(c) /\ ValidationFailure(c)) => RouteStatus(outcome[c]) # 503

\* The notification POST of caller c has just been answered or has failed
NotificationAnswered(c) == obs[c].last.req = "notif"

\* C20: the initialized notification is best-effort.  Whatever the outcome
\* of the notification POST (any status, connect error, timeout, read
\* error), the handshake stands, no failure is recorded on the session and
\* the operation goes on: with valid arguments its tools/call POST is sent.
C20_NotificationBestEffort ==
    \A c \in Callers :
        NotificationAnswered(c)
            => /\ obs[c].init = "ok"
               /\ obs[c].setup = "ok"
               /\ ~initialization_failed
               /\ failure_reason = ""
               /\ session_id \in handshaken
               /\ IF obs[c].invalid
                  THEN Ended(c) /\ ValidationFailure(c)
                  ELSE call[c].pc = "tool" /\ obs[c].nTool = 1

\* C20 witness: the notification POST timed out and the tools/call POST of
\* the operation is in flight.
C20_Witness ==
    \E c \in Callers :
        /\ NotificationAnswered(c)
        /\ obs[c].last.kind = "TimeoutException"
        /\ call[c].pc = "tool"
        /\ ~initialization_failed

\* The client the global holds has sent no request yet
Unwired == memmachine_client # None /\ memmachine_client \notin wired

\* get_memmachine_client has just constructed the client it returned
Constructed == life.op = "get_memmachine_client" /\ life.was = None

\* C21: lazy session creation.  Constructing the client in
\* get_memmachine_client sends no request, and as long as the client has
\* sent none it holds no token and records no failure; the client sends its
\* first request (the token GET) only once a caller is inside add_memory or
\* search_memory.
C21_LazySession ==
    /\ Constructed => life.client = memmachine_client /\ Unwired
    /\ Unwired => /\ session_id = None
                  /\ ~initialization_failed
                  /\ failure_reason = ""
                  /\ \A c \in Callers : Idle(c)

\* C21 witness: after the first client was used and closed,
\* get_memmachine_client has constructed a second one, which has sent
\* nothing.
C21_Witness ==
    /\ Constructed
    /\ instances = 2
    /\ 1 \in wired
    /\ Unwired

\* C22: close is idempotent.  After close_memmachine_client the global is
\* None and the client it held is closed, whether or not the global held a
\* client when it was called; closing a closed client again leaves it
\* closed; and the get_memmachine_client that follows returns a client that
\* was never closed and holds no session.
C22_CloseIdempotent ==
    /\ life.op = "close_memmachine_client"
          => /\ memmachine_client = None
             /\ life.was # None => life.was \in closed
    /\ life.op = "close" => life.client \in closed
    /\ Constructed => /\ memmachine_client \notin closed
                      /\ session_id = None
                      /\ handshaken = {}
                      /\ ~initialization_attempted

\* C22 witness: close_memmachine_client was called a second time, with the
\* first client closed and the global already None.
C22_Witness ==
    /\ life.op = "close_memmachine_client"
    /\ life.was = None
    /\ 1 \in closed
    /\ memmachine_client = None

\* The tools/call POST of caller c, the only one of its call, has just been
\* answered with status 200
OnlyPostAnswered200(c) ==
    /\ obs[c].last.req = "tool"
    /\ obs[c].last.kind = "response"
    /\ obs[c].last.status = 200
    /\ obs[c].nStale = 0

\* C23 as stated: once a call has returned on the client, every later call
\* whose tools/call POST is answered 200 has sent no token GET, no
\* initialize POST and exactly one tools/call POST.
C23_HandshakeOnce ==
    \A c \in Callers :
        obs[c].startSucceeded /\ OnlyPostAnswered200(c)
            => obs[c].nGet = 0 /\ obs[c].nInit = 0 /\ obs[c].nTool = 1

\* C23 amended: the same, for the later calls that start with the session
\* token still cached and no failure recorded.
C23_HandshakeOncePerSession ==
    \A c \in Callers :
        /\ obs[c].startSucceeded
        /\ obs[c].startSession
        /\ ~obs[c].startFailed
        /\ OnlyPostAnswered200(c)
        => obs[c].nGet = 0 /\ obs[c].nInit = 0 /\ obs[c].nNotif = 0
              /\ obs[c].nTool = 1

\* C23 witness: a call that started on a client with an earlier success and
\* a cached token has had its tools/call POST answered 200 and has returned.
C23_Witness ==
    \E c \in Callers :
        /\ obs[c].startSucceeded
        /\ obs[c].startSession
        /\ ~obs[c].startFailed
        /\ OnlyPostAnswered200(c)
        /\ outcome[c].kind = "return"
        /\ obs[c].nTool = 1

\* The tools/call POST of caller c has just been answered 200 with a stream
\* that carries no result line
NoResultAnswer(c) ==
    /\ obs[c].last.req = "tool"
    /\ obs[c].last.kind = "response"
    /\ obs[c].last.status = 200
    /\ ~obs[c].toolSawResult

\* The failure C24 expects for a captured error payload
ClaimedFailure(e) ==
    LET code == IF IsDict(e) THEN DictGet(e, "code", JInt(-1)) ELSE JInt(-1)
    IN IF code = JInt(-32602) THEN Raise("ValueError", "mcp_invalid_params")
       ELSE IF code = JInt(-32603)
       THEN Raise("ValueError", "mcp_internal_error")
       ELSE Raise("ValueError", "mcp_error")

\* C24: a tools/call answered 200 with a stream without a result line
\* returns nothing.  _call_tool raises the no-result failure exactly when
\* no data line carried an "error" field, and otherwise the failure built
\* from the last error captured (invalid parameters for -32602, internal
\* error for -32603, the raw payload for any other code).
C24_StreamEndClassified ==
    \A c \in Callers :
        NoResultAnswer(c)
            => LET errors == obs[c].toolErrors IN
               /\ obs[c].returned.kind = "raise"
               /\ outcome[c].kind = "raise"
               /\ obs[c].returned = Raise("ValueError", "no_result")
                     <=> errors = <<>>
               /\ errors # <<>>
                     => obs[c].returned = ClaimedFailure(errors[Len(errors)].v)

\* The session setup of caller c's call has failed
SetupFailed(c) == obs[c].setup = "failed"

\* C25: a failed session setup issues nothing further.  When the token
\* acquisition fails or the initialize POST yields no acceptable result, the
\* call has ended without sending the initialized notification or a
\* tools/call POST, it has raised the memory-service-unavailable failure
\* carrying the reason, and the failure flag is set with that reason
\* recorded.
C25_FailedSetupStops ==
    \A c \in SeqCallers :
        SetupFailed(c)
            => /\ Ended(c)
               /\ obs[c].nNotif = 0
               /\ obs[c].nTool = 0
               /\ outcome[c].kind = "raise"
               /\ outcome[c].exc = "ValueError"
               /\ outcome[c].msg = "unavailable"
               /\ initialization_failed
               /\ failure_reason # ""
               /\ failure_reason = outcome[c].detail

\* C25 witness: the token GET succeeded, the initialize stream ended
\* without a result, and the call has raised.
C25_Witness ==
    \E c \in SeqCallers :
        /\ SetupFailed(c)
        /\ obs[c].nGet = 1
        /\ obs[c].nInit = 1
        /\ ~obs[c].initSawResult
        /\ failure_reason = "init_no_result"
        /\ Ended(c)

\* The step answers the tools/call POST of caller c with a status other
\* than 200, 400 and 401
OtherStatusStep(c) ==
    /\ call[c].pc = "tool"
    /\ obs'[c].last.req = "tool"
    /\ obs'[c].last.kind = "response"
    /\ obs'[c].last.status \notin {200, 400, 401}

\* C26: only 400 and 401 trigger the refresh.  A tools/call POST answered
\* with any other non-200 status ends the call with a failure: no token GET
\* and no further POST is sent (a call that was not retried before has sent
\* exactly one POST), and the cached token, the failure flag and the
\* failure reason are left as they were.
C26_OnlyStaleStatusRefreshes ==
    [][\A c \in SeqCallers :
          OtherStatusStep(c)
              => /\ call'[c].pc = "idle"
                 /\ outcome'[c].kind = "raise"
                 /\ obs'[c].nGet = obs[c].nGet
                 /\ obs'[c].nRefresh = obs[c].nRefresh
                 /\ obs'[c].nTool = obs[c].nTool
                 /\ obs[c].nStale = 0 => obs'[c].nTool = 1
                 /\ session_id' = session_id
                 /\ initialization_failed' = initialization_failed
                 /\ failure_reason' = failure_reason]_vars

\* C26 witness: a call that started with a cached token has had its only
\* tools/call POST answered 500 and has raised, having sent no token GET
\* and changed nothing on the session.
C26_Witness ==
    \E c \in SeqCallers :
        /\ obs[c].last.req = "tool"
        /\ obs[c].last.status = 500
        /\ Ended(c)
        /\ outcome[c].kind = "raise"
        /\ obs[c].startSession
        /\ obs[c].nTool = 1
        /\ obs[c].nGet = 0
        /\ obs[c].kept
        /\ session_id # None

\* C27: the failure flag and the failure reason move together.  In every
\* state of a client driven by one sequential caller the flag is set
\* exactly when a reason is recorded, and a public call that has raised
\* during its session setup has raised with the recorded reason in its
\* message.
C27_FlagAndReasonTogether ==
    /\ initialization_failed <=> failure_reason # ""
    /\ \A c \in SeqCallers :
          Ended(c) /\ SetupFailed(c)
              => /\ outcome[c].kind = "raise"
                 /\ initialization_failed
                 /\ outcome[c].detail = failure_reason

\* C27 witness: on a client with a failure recorded, the next call has
\* cleared it, has failed in its own setup and has raised with the new
\* reason.
C27_Witness ==
    \E c \in SeqCallers :
        /\ Ended(c)
        /\ SetupFailed(c)
        /\ obs[c].startFailed
        /\ initialization_failed
        /\ failure_reason # ""
        /\ outcome[c].detail = failure_reason

\* Caller c has completed its initialize handshake and awaits the answer to
\* its initialized notification; its next step attaches the cached token to
\* its tools/call POST
AboutToAttach(c) == call[c].pc = "notif" /\ ~obs[c].invalid

\* C28: with two calls interleaved on the shared client, the cached token a
\* caller is about to attach after its handshake is a token whose handshake
\* this client has completed, and so is the token of every tools/call POST
\* in flight.
C28_SharedCallsCarryHandshakenToken ==
    \A c \in Callers :
        /\ AboutToAttach(c) => session_id \in handshaken
        /\ call[c].pc = "tool" /\ obs[c].init = "ok"
              => call[c].session_id \in handshaken

\* C29: principal consistency on the wire.  The user-id header of every
\* tools/call POST in flight names the principal that the arguments of the
\* call carry as user_id (the one supplied, or the configured default).
C29_HeaderNamesArgumentPrincipal ==
    \A c \in Callers :
        call[c].pc = "tool" => call[c].header_user = call[c].arg_user

\* C30: the cached RAG service follows the memory client.  The service that
\* get_langchain_rag_service has just returned holds the client the global
\* holds (the one get_memmachine_client returns), and that client has not
\* been closed.
C30_ServiceFollowsClient ==
    life.op = "get_langchain_rag_service"
        => /\ life.service.made
           /\ life.service.memmachine_client = memmachine_client
           /\ life.service.memmachine_client \notin closed

====
